---- MODULE Spec2Model ----
(***************************************************************************)
(* Model of the planning flow of OpenManus (app/flow/planning.py,          *)
(* app/flow/base.py): plan creation with the default-plan fallback, the    *)
(* step loop (selection, execution, completion marking) and finalization.  *)
(* The planning tool (app/tool/planning.py) and the agents' run method     *)
(* (app/agent/base.py) are collaborators: each call to them is a           *)
(* nondeterministic choice over the outcomes their contract allows.        *)
(* RenderSpec follows the plan text rendered from storage between direct   *)
(* mutations of a plan. AgentSpec follows one run of an agent: the run     *)
(* loop, the tool-call dispatcher and the stuck-loop detection as the      *)
(* design describes them, and CoTAgent.step (app/agent/cot.py).            *)
(***************************************************************************)
EXTENDS Integers, Sequences, FiniteSets, TLC

VARIABLES
    agents,             \* BaseFlow.agents: the registered agent keys
    primary_agent_key,  \* BaseFlow.primary_agent_key
    executor_keys,      \* PlanningFlow.executor_keys
    agent_state,        \* BaseAgent.state of every registered agent
    input_text,         \* the argument of PlanningFlow.execute
    plans,              \* PlanningTool._plans: plan id -> plan data
    current_step_index, \* PlanningFlow.current_step_index (NoIndex = None)
    step_info,          \* step_info of the selected step (its text and type)
    result,             \* the local result of execute, one entry per piece
    ret,                \* the text execute returned (Pending until then)
    pc,                 \* position of execute
    selected,           \* history: the indices returned by step selection
    runs,               \* history: the agent runs execute has awaited
    ev,                 \* history: the outcomes drawn by the last action
    plan_text,          \* the text _generate_plan_text_from_storage returned
    rendered,           \* renderings of the plan since its last mutation
    agent_kind,         \* the class of the agent run is called on
    available_tools,    \* the names of the agent's registered tools
    max_steps,          \* the agent's step budget
    state,              \* the agent's AgentState
    current_step,       \* the agent's step counter
    memory,             \* the agent's messages, oldest first
    tool_calls,         \* the calls of the current step not dispatched yet
    duplicate_count,    \* the stuck-loop detection's counter
    inject,             \* the change-strategy instruction is due in the next think
    thinks,             \* history: content and guidance of every think
    dispatched,         \* history: the tool calls dispatched, with their outcome
    released,           \* history: the ids of the calls cleanup was run for
    browser,            \* BrowserUseTool.browser is not None
    context,            \* BrowserUseTool.context is not None
    lock,               \* BrowserUseTool.lock: NoTask when free, else its holder
    task_pc,            \* position of every task that uses the browser tool
    task_call,          \* the call every such task is making
    task_result,        \* the ToolResult its last execute returned
    written,            \* history: the status last written for every step
    mark_pc,            \* position of the flow in a marking of a step
    mark_req,           \* the step and the status the flow is marking
    now,                \* time.time()
    deadline,           \* the deadline of the execute call of DeepResearch
    max_depth,          \* ResearchContext.max_depth
    current_depth,      \* ResearchContext.current_depth
    cycles,             \* the calls of _research_graph, in the order started
    research,           \* position and outcome of the execute call
    dom_service,        \* BrowserUseTool.dom_service is not None
    search_config,      \* config.search_config
    search_pc,          \* position of WebSearch.execute
    retry_count,        \* the round WebSearch.execute is in
    engine_order,       \* what _get_engine_order returned for the round
    engine_pos,         \* the engine of the round tried next
    attempts,           \* history: the searches performed, by round and engine
    sleeps,             \* history: the rounds retry_delay was waited after
    links,              \* what WebSearch.execute returned
    next_step_prompt,   \* Manus.next_step_prompt: browser-state texts appended
    original_prompt,    \* the local original_prompt of Manus.think
    think_pc,           \* position of Manus.think
    think_log,          \* history: how every think call ended
    visited_urls,       \* ResearchContext.visited_urls
    analysed,           \* history: the urls passed to _analyze_content
    extract_results,    \* the search results every cycle extracts from
    extract_pos,        \* the result every cycle looks at next
    extract_pc          \* position of every cycle in _extract_insights

flowVars == <<agents, primary_agent_key, executor_keys, agent_state,
              input_text, current_step_index, step_info, result, ret,
              selected, runs, ev>>
renderVars == <<plan_text, rendered>>
agentVars == <<agent_kind, available_tools, max_steps, state, current_step,
               memory, tool_calls, duplicate_count, inject, thinks,
               dispatched>>
sessionVars == <<browser, context, dom_service, released>>
taskVars == <<lock, task_pc, task_call, task_result>>
markVars == <<written, mark_pc, mark_req>>
researchVars == <<now, deadline, max_depth, current_depth, cycles, research>>
searchVars == <<search_config, search_pc, retry_count, engine_order,
                engine_pos, attempts, sleeps, links>>
thinkVars == <<next_step_prompt, original_prompt, think_pc, think_log>>
extractVars == <<visited_urls, analysed, extract_results, extract_pos,
                 extract_pc>>
\* what the actions of the flow leave alone
auxVars == <<renderVars, agentVars, sessionVars, taskVars, markVars,
             researchVars, searchVars, thinkVars, extractVars>>
\* what the actions on the plan text leave alone
renderRest == <<flowVars, pc, agentVars, sessionVars, taskVars, markVars,
                researchVars, searchVars, thinkVars, extractVars>>
\* what the actions of the agent loop leave alone
agentRest == <<flowVars, plans, renderVars, taskVars, markVars, researchVars,
               searchVars, thinkVars, extractVars>>
\* what the tasks that call the browser tool leave alone
browserRest == <<flowVars, plans, pc, renderVars, agentVars, released,
                 markVars, researchVars, searchVars, thinkVars, extractVars>>
\* what the writers of step_status leave alone
markRest == <<flowVars, pc, renderVars, agentVars, sessionVars, taskVars,
              researchVars, searchVars, thinkVars, extractVars>>
\* what the research cycles leave alone
researchRest == <<flowVars, plans, pc, renderVars, agentVars, sessionVars,
                  taskVars, markVars, searchVars, thinkVars, extractVars>>
\* what a web search leaves alone
searchRest == <<flowVars, plans, pc, renderVars, agentVars, sessionVars,
                taskVars, markVars, researchVars, thinkVars, extractVars>>
\* what a think of Manus leaves alone
thinkRest == <<flowVars, plans, pc, renderVars, agentVars, sessionVars,
               taskVars, markVars, researchVars, searchVars, extractVars>>
\* what the extraction of insights leaves alone
extractRest == <<flowVars, plans, pc, renderVars, agentVars, sessionVars,
                 taskVars, markVars, researchVars, searchVars, thinkVars>>

vars == <<flowVars, plans, pc, renderVars, agentVars, sessionVars, taskVars,
          markVars, researchVars, searchVars, thinkVars, extractVars>>

----------------------------------------------------------------------------
(* Bounds *)

MaxSteps == 2        \* longest plan a planner run leaves behind
MaxSelections == 3   \* step selections followed in one execute call
MaxRenders == 2      \* renderings followed between two mutations of a plan
MaxAgentSteps == 4   \* largest step budget an agent is given
MaxDepthInput == 3   \* largest max_depth passed to DeepResearch.execute
MaxTime == 2         \* ticks of the clock followed in one research
MaxRetries == 2      \* largest max_retries a search configuration holds
MaxThinks == 6       \* calls of Manus.think followed
MaxResults == 2      \* search results one research cycle holds

----------------------------------------------------------------------------
(* Values *)

ActivePlanId == "plan_1"
NoKey == "None"
NoIndex == -1
NoType == "None"

Statuses == {"not_started", "in_progress", "completed", "blocked"}
ActiveStatuses == {"not_started", "in_progress"}
PostRunStates == {"IDLE", "FINISHED"}
ToolOutcomes == {"ok", "raise", "error"}
RunOutcomes == {"ok", "raise"}
\* an executor's run may also return a value that is not a text
StepRunOutcomes == RunOutcomes \cup {"nontext"}

DefaultSteps == <<"Analyze request", "Execute task", "Verify results">>
StepTexts == <<"gather data", "[SEARCH] find sources">>
Requests == {"", "build a 3-step report"}

Indices(n) == 0 .. (n - 1)
StatusMaps(n) == UNION {[D -> Statuses] : D \in SUBSET Indices(n)}
\* the step lists of the plans: the two texts in turn, from either one
StepSeqs ==
    {[j \in 1 .. k |-> StepTexts[((j + o) % 2) + 1]] :
        k \in 0 .. MaxSteps, o \in {0, 1}}

\* the plans a run of an agent holding the planning tool can leave behind
PlanSpace ==
    UNION {{[title |-> "Planner", steps |-> s, step_status |-> m] :
                m \in StatusMaps(Len(s))} : s \in StepSeqs}

NoPlans == [id \in {} |-> 0]
Stored(p) == [id \in {ActivePlanId} |-> p]
PlanStores == {NoPlans} \cup {Stored(p) : p \in PlanSpace}

\* the ways run_flow and its callers configure the flow
Configs ==
    { [agents |-> {}, primary |-> NoKey, executors |-> << >>],
      [agents |-> {"manus"}, primary |-> "manus", executors |-> <<"manus">>],
      [agents |-> {"manus"}, primary |-> "planner", executors |-> <<"manus">>],
      [agents |-> {"manus", "search"}, primary |-> "manus",
       executors |-> <<"coder", "search">>],
      [agents |-> {"manus", "search"}, primary |-> "manus",
       executors |-> <<"coder">>] }

NoEvent == [op |-> "none", planner |-> "none", empty |-> FALSE,
            create |-> "none", mark |-> "none", run |-> "none",
            status |-> "none", agent |-> NoKey]

----------------------------------------------------------------------------
(* The planning tool's commands *)

\* create: stores the plan, every step not_started
ToolCreate(ps, title, steps) ==
    [id \in (DOMAIN ps) \cup {ActivePlanId} |->
        IF id = ActivePlanId
        THEN [title |-> title, steps |-> steps,
              step_status |-> [i \in Indices(Len(steps)) |-> "not_started"]]
        ELSE ps[id]]

\* mark_step: sets the status of one step of a stored plan
ToolMarkStep(ps, i, status) ==
    [ps EXCEPT ![ActivePlanId].step_status =
        [j \in (DOMAIN @) \cup {i} |-> IF j = i THEN status ELSE @[j]]]

----------------------------------------------------------------------------
(* Helpers of the flow *)

\* step_status.get(str(i), "not_started")
StatusOf(plan, i) ==
    IF i \in DOMAIN plan.step_status THEN plan.step_status[i]
    ELSE "not_started"

\* faulty variant: the mapping written back is a new one with the one entry
SetStatusDirect_FreshMapping(ps, i, s) ==
    [ps EXCEPT ![ActivePlanId].step_status = [j \in {i} |-> s]]

\* step_status[str(i)] = s; plan_data["step_status"] = step_status
SetStatusDirect(ps, i, s) ==
    [ps EXCEPT ![ActivePlanId].step_status =
        [j \in (DOMAIN @) \cup {i} |-> IF j = i THEN s ELSE @[j]]]

primary_agent == IF primary_agent_key \in agents THEN primary_agent_key ELSE NoKey

planner_key == primary_agent_key

planner ==
    IF planner_key # NoKey
    THEN (IF planner_key \in agents THEN planner_key ELSE NoKey)
    ELSE primary_agent

RECURSIVE FirstExecutor(_, _)
FirstExecutor(keys, k) ==
    IF k > Len(keys) THEN NoKey
    ELSE IF keys[k] \in agents THEN keys[k]
    ELSE FirstExecutor(keys, k + 1)

\* faulty variant: the step type is ignored
get_executor_IgnoresType(step_type) ==
    IF FirstExecutor(executor_keys, 1) # NoKey
    THEN FirstExecutor(executor_keys, 1)
    ELSE primary_agent

get_executor(step_type) ==
    IF step_type # NoType /\ step_type \in agents THEN step_type
    ELSE IF FirstExecutor(executor_keys, 1) # NoKey
         THEN FirstExecutor(executor_keys, 1)
         ELSE primary_agent

\* re.search(r"\[([A-Z_]+)\]", step), group(1).lower()
StepType(text) ==
    IF text = "[SEARCH] find sources" THEN "search" ELSE NoType

EmergencyPlan ==
    [title |-> "Emergency Plan for", steps |-> DefaultSteps,
     step_status |-> [i \in 0 .. 2 |-> "not_started"]]

EmptyStatus == [i \in Indices(0) |-> "not_started"]

\* the plan stored before the planner runs
EmptyPlan == [title |-> "Plan for", steps |-> << >>, step_status |-> EmptyStatus]

PutPlan(ps, p) ==
    [id \in (DOMAIN ps) \cup {ActivePlanId} |->
        IF id = ActivePlanId THEN p ELSE ps[id]]

\* active_plan_id not in _plans or not _plans[active_plan_id].get("steps")
PlanMissingOrEmpty(ps) ==
    \/ ActivePlanId \notin DOMAIN ps
    \/ Len(ps[ActivePlanId].steps) = 0

\* faulty variant: a raising create is only logged, nothing is written to the storage
CreateDefaultPlan_NoFallback(ps, co) ==
    CASE co = "ok" -> ToolCreate(ps, "Plan for", DefaultSteps)
      [] OTHER -> ps

\* _create_default_plan: the store it leaves, by the outcome of create
CreateDefaultPlan(ps, co) ==
    CASE co = "ok" -> ToolCreate(ps, "Plan for", DefaultSteps)
      [] co = "raise" -> PutPlan(ps, EmergencyPlan)
      [] OTHER -> ps

\* faulty variant: the scan takes only not_started steps
RECURSIVE FirstActiveStep_NotStartedOnly(_, _)
FirstActiveStep_NotStartedOnly(plan, i) ==
    IF i >= Len(plan.steps) THEN NoIndex
    ELSE IF StatusOf(plan, i) = "not_started" THEN i
    ELSE FirstActiveStep_NotStartedOnly(plan, i + 1)

\* faulty variant: the scan takes every step that is not blocked
RECURSIVE FirstActiveStep_NotBlocked(_, _)
FirstActiveStep_NotBlocked(plan, i) ==
    IF i >= Len(plan.steps) THEN NoIndex
    ELSE IF StatusOf(plan, i) # "blocked" THEN i
    ELSE FirstActiveStep_NotBlocked(plan, i + 1)

\* faulty variant: the scan stops one step before the end of the plan
RECURSIVE FirstActiveStep_StopsEarly(_, _)
FirstActiveStep_StopsEarly(plan, i) ==
    IF i >= Len(plan.steps) - 1 THEN NoIndex
    ELSE IF StatusOf(plan, i) \in ActiveStatuses THEN i
    ELSE FirstActiveStep_StopsEarly(plan, i + 1)

\* faulty variant: the scan goes on to the last active step
RECURSIVE FirstActiveStep_LastActive(_, _)
FirstActiveStep_LastActive(plan, i) ==
    IF i >= Len(plan.steps) THEN NoIndex
    ELSE IF FirstActiveStep_LastActive(plan, i + 1) # NoIndex
         THEN FirstActiveStep_LastActive(plan, i + 1)
    ELSE IF StatusOf(plan, i) \in ActiveStatuses THEN i
    ELSE NoIndex

\* the scan of _get_current_step_info, from index i on
RECURSIVE FirstActiveStep(_, _)
FirstActiveStep(plan, i) ==
    IF i >= Len(plan.steps) THEN NoIndex
    ELSE IF StatusOf(plan, i) \in ActiveStatuses THEN i
    ELSE FirstActiveStep(plan, i + 1)

\* marking the selected step in_progress, by the outcome of mark_step
MarkInProgress(ps, i, mo) ==
    CASE mo = "ok" -> ToolMarkStep(ps, i, "in_progress")
      [] mo = "raise" -> SetStatusDirect(ps, i, "in_progress")
      [] OTHER -> ps

\* _mark_step_completed, by the outcome of mark_step
MarkStepCompleted(ps, i, mo) ==
    IF i = NoIndex THEN ps
    ELSE CASE mo = "ok" -> ToolMarkStep(ps, i, "completed")
           [] mo = "raise" ->
                IF ActivePlanId \in DOMAIN ps
                THEN SetStatusDirect(ps, i, "completed") ELSE ps
           [] OTHER -> ps

\* faulty variant: the step is marked completed whether or not the run raised
StepExecuted_MarksOnRaise(ps, i, ro, mo) == MarkStepCompleted(ps, i, mo)

\* the try block of _execute_step: the store it leaves, by the outcome of
\* the executor's run and of mark_step
StepExecuted(ps, i, ro, mo) ==
    IF ro = "raise" THEN ps ELSE MarkStepCompleted(ps, i, mo)

\* faulty variant: the plan is created whatever the request
AfterAgentCheck_AlwaysCreates(pa, text) ==
    IF pa = NoKey THEN "done" ELSE "create"

\* faulty variant: execute goes on without a primary agent
AfterAgentCheck_NoCheck(pa, text) ==
    IF text # "" THEN "create" ELSE "loop"

\* where execute goes after its primary agent check
AfterAgentCheck(pa, text) ==
    IF pa = NoKey THEN "done"
    ELSE IF text # "" THEN "create" ELSE "loop"

\* faulty variant: the loop never looks at the executor's state
ShouldStop_Never(st) == FALSE

\* hasattr(executor, "state") and executor.state == AgentState.FINISHED
ShouldStop(st) == st = "FINISHED"

\* faulty variant: a raising summary run yields the same text as a good one
SummaryText_NoFallback(po) == "Plan completed:"

\* the text _finalize_plan returns, by the outcome of the planner's run
SummaryText(po) ==
    IF po = "raise" THEN "Plan completed. Error generating summary."
    ELSE "Plan completed:"

\* the texts the outer except of execute returns
NoPrimaryAgentText == "Execution failed: No primary agent available"
StepResultFaultText == "Execution failed: unsupported operand"
ExecutionFailedTexts == {NoPrimaryAgentText, StepResultFaultText}

AgentRun(agent, purpose) == [agent |-> agent, purpose |-> purpose]

\* the number of stored statuses equal to s: the loop over step_status.values()
StatusCount(plan, s) ==
    Cardinality({i \in DOMAIN plan.step_status : plan.step_status[i] = s})

\* (completed / total) * 100 formatted with one decimal, in tenths of a percent
Progress(completed, total) ==
    IF total > 0 THEN (completed * 2000 + total) \div (2 * total) ELSE 0

\* the marks, with v for the check mark and > for the arrow of the source
StatusMark(status) ==
    IF status = "completed" THEN "[v]"
    ELSE IF status = "in_progress" THEN "[>]"
    ELSE IF status = "blocked" THEN "[!]"
    ELSE "[ ]"

NoText == [found |-> FALSE, title |-> "None", completed |-> 0, total |-> 0,
           progress |-> 0, counts |-> << >>, lines |-> << >>]

\* the text _generate_plan_text_from_storage returns: header, progress line,
\* status line and one line per step
GeneratePlanTextFromStorage(ps) ==
    IF ActivePlanId \notin DOMAIN ps
    THEN [NoText EXCEPT !.title = "Error: Plan not found"]
    ELSE LET plan == ps[ActivePlanId]
             completed == StatusCount(plan, "completed")
             total == Len(plan.steps)
         IN  [found |-> TRUE,
              title |-> plan.title,
              completed |-> completed,
              total |-> total,
              progress |-> Progress(completed, total),
              counts |-> <<StatusCount(plan, "completed"),
                           StatusCount(plan, "in_progress"),
                           StatusCount(plan, "blocked"),
                           StatusCount(plan, "not_started")>>,
              lines |-> [j \in 1 .. total |->
                            [index |-> j - 1,
                             mark |-> StatusMark(StatusOf(plan, j - 1)),
                             step |-> plan.steps[j]]]]

\* faulty variant: reading a status stores the default it fell back to
StorageAfterRender_StoresDefaults(ps) ==
    IF ActivePlanId \notin DOMAIN ps THEN ps
    ELSE [ps EXCEPT ![ActivePlanId].step_status =
            [i \in Indices(Len(ps[ActivePlanId].steps)) |->
                StatusOf(ps[ActivePlanId], i)]]

HasStoredPlan(ps) == ActivePlanId \in DOMAIN ps

\* the storage after a rendering: plan_data is only read (.get, .values)
StorageAfterRender(ps) == ps

NoInfo == [text |-> "None", type |-> NoType]
Piece(kind, i) == [kind |-> kind, index |-> i]
Pending == [returned |-> FALSE, text |-> << >>]
Returned(text) == [returned |-> TRUE, text |-> text]

----------------------------------------------------------------------------
(* The agent loop: values and helpers *)

AgentStates == {"IDLE", "RUNNING", "FINISHED", "ERROR"}
AgentKinds == {"toolcall", "cot", "browser"}

\* CoTAgent.max_steps
CoTMaxSteps == 1
\* the consecutive identical assistant contents that are tolerated
duplicate_threshold == 2

StepBudgets == {CoTMaxSteps, MaxAgentSteps}

\* what the completion service answers: a content and a list of tool names
Contents == {"thought a", "thought b"}
ToolNames == {"search", "terminate"}
SpecialTools == {"terminate"}
ToolCallLists == {<< >>, <<"ghost", "search">>, <<"terminate", "search">>}

\* BrowserAgent and Manus: the tools that matter to the session, and what the
\* completion service asks of them
BrowserToolNames == {"browser_use", "terminate"}
BrowserCallLists == {<< >>, <<"browser_use">>, <<"terminate", "browser_use">>}
ToolsOf(kind) ==
    IF kind = "cot" THEN {{}}
    ELSE IF kind = "browser" THEN {BrowserToolNames}
    ELSE {{}, ToolNames}
CallListsOf(kind) ==
    IF kind = "browser" THEN BrowserCallLists ELSE ToolCallLists
ExecOutcomes == {"ok", "raise"}

NoId == 0
NoResult == [output |-> "", error |-> ""]
\* the calls of step n, in the order listed, each with its own id
Calls(names, n) ==
    [k \in 1 .. Len(names) |-> [id |-> 10 * (n + 1) + k, name |-> names[k]]]

UserMessage(content) ==
    [role |-> "user", content |-> content, tool_calls |-> << >>,
     tool_call_id |-> NoId, error |-> ""]
AssistantMessage(content, calls) ==
    [role |-> "assistant", content |-> content, tool_calls |-> calls,
     tool_call_id |-> NoId, error |-> ""]
\* the tool-role message of a result: its output, or its error text
ToolMessage(id, res) ==
    [role |-> "tool",
     content |-> IF res.error # "" THEN res.error ELSE res.output,
     tool_calls |-> << >>, tool_call_id |-> id, error |-> res.error]

\* the ToolResult the dispatcher produces for one call
ToolResultOf(outcome) ==
    IF outcome = "unknown" THEN [NoResult EXCEPT !.error = "unknown tool"]
    ELSE IF outcome = "raise" THEN [NoResult EXCEPT !.error = "tool fault"]
    ELSE [NoResult EXCEPT !.output = "observation"]

\* faulty variant: the calls are taken from the end of the list
NextCall_Last(calls) == calls[Len(calls)]

\* the call the dispatcher handles next
NextCall(calls) == Head(calls)

\* faulty variant: a failed call aborts the calls after it
RestCalls_AbortOnFailure(calls, outcome) ==
    IF outcome = "ok" THEN Tail(calls) ELSE << >>

\* the calls left after one was handled, whatever its outcome
RestCalls(calls, outcome) == Tail(calls)

\* where the dispatcher goes once a call is handled
AfterCall(rest) == IF rest = << >> THEN "check" ELSE "act"

\* faulty variant: the state is set before the session is released
HandleSpecialTool_FinishFirst == <<"finish", "cleanup">>

\* BrowserAgent._handle_special_tool and Manus._handle_special_tool for a
\* special tool: the cleanup of the browser tool, then the handling of the
\* base class
HandleSpecialTool == <<"cleanup", "finish">>

AfterSpecialStep(step, rest) ==
    IF step = HandleSpecialTool[1] THEN HandleSpecialTool[2]
    ELSE AfterCall(rest)

\* _ensure_browser_initialized when nothing faults: the browser and the
\* context are created when absent, the dom service with the context
InitializedSession(b, c, d) == <<TRUE, TRUE, IF c THEN d ELSE TRUE>>

\* _ensure_browser_initialized when a step of it faults: before anything was
\* set, after the browser was, or after the context was
HalfInitializedSessions(b, c, d) ==
    {<<b, c, d>>} \cup (IF c THEN {} ELSE {<<TRUE, c, d>>, <<TRUE, TRUE, d>>})

\* the tool's browser, context and dom service after a step
SessionBecomes(session) ==
    /\ browser' = session[1]
    /\ context' = session[2]
    /\ dom_service' = session[3]

\* faulty variant: cleanup leaves the dom service
CleanedSession_KeepsDomService(b, c, d) == <<FALSE, FALSE, d>>

\* cleanup when nothing faults: a context that is there is closed and
\* dropped with the dom service, a browser that is there is closed and dropped
CleanedSession(b, c, d) == <<FALSE, FALSE, IF c THEN FALSE ELSE d>>

\* cleanup when a close faults: that of the context, with nothing dropped,
\* or that of the browser, with the context dropped
HalfCleanedSessions(b, c, d) ==
    (IF c THEN {<<b, c, d>>} ELSE {})
    \cup (IF b THEN {<<b, FALSE, IF c THEN FALSE ELSE d>>} ELSE {})

\* what a call leaves of the session: browser_use opens it when it succeeds,
\* and a call that failed may have opened any part of it before
SessionAfter(name, outcome, b, c, d) ==
    IF name # "browser_use" \/ outcome = "unknown" THEN {<<b, c, d>>}
    ELSE IF outcome = "ok" THEN {InitializedSession(b, c, d)}
    ELSE HalfInitializedSessions(b, c, d) \cup {InitializedSession(b, c, d)}

IsAssistant(m) == m.role = "assistant"
AssistantMessages(mem) == SelectSeq(mem, IsAssistant)

\* the two most recent assistant messages have the same content
LastTwoIdentical(mem) ==
    LET a == AssistantMessages(mem)
    IN  Len(a) >= 2 /\ a[Len(a)].content = a[Len(a) - 1].content

\* the length of the current run of identical assistant contents
CountDuplicates(mem, count) ==
    IF LastTwoIdentical(mem) THEN count + 1 ELSE 1

\* faulty variant: one more repetition is tolerated
IsStuck_Late(count) == count > duplicate_threshold + 1

IsStuck(count) == count > duplicate_threshold

\* faulty variant: the loop goes on while budget is left, whatever the state
LoopContinues_IgnoresState(st, cs, ms) == cs < ms

\* the loop condition of run
LoopContinues(st, cs, ms) == st = "RUNNING" /\ cs < ms

\* faulty variant: running out of budget is an error
StateAfterLoop_BudgetIsError(st) ==
    IF st = "RUNNING" THEN "ERROR" ELSE st

\* the state run leaves when the loop has ended
StateAfterLoop(st) ==
    IF st = "RUNNING" THEN "FINISHED" ELSE st

NoTask == 0
NoCall == [op |-> "none", action |-> "none", args |-> FALSE]

\* no browser tool in use: no session, the lock free, no task
BrowserIdle ==
    /\ browser = FALSE
    /\ context = FALSE
    /\ dom_service = FALSE
    /\ released = << >>
    /\ lock = NoTask
    /\ task_pc = << >>
    /\ task_call = << >>
    /\ task_result = << >>

NoRequest == [index |-> NoIndex, status |-> "none", via |-> "none"]

\* no marking under way outside the flow's own actions
MarkIdle ==
    /\ written = << >>
    /\ mark_pc = "idle"
    /\ mark_req = NoRequest

NoSearchConfig == [engine |-> "", fallback_engines |-> << >>, max_retries |-> 0]

\* no web search under way
SearchIdle ==
    /\ search_config = NoSearchConfig
    /\ search_pc = "idle"
    /\ retry_count = 0
    /\ engine_order = << >>
    /\ engine_pos = 0
    /\ attempts = << >>
    /\ sleeps = << >>
    /\ links = << >>

\* no think of Manus under way
ThinkIdle ==
    /\ next_step_prompt = 0
    /\ original_prompt = 0
    /\ think_pc = "idle"
    /\ think_log = << >>

\* no extraction of insights under way
ExtractIdle ==
    /\ visited_urls = {}
    /\ analysed = << >>
    /\ extract_results = << >>
    /\ extract_pos = << >>
    /\ extract_pc = << >>

\* none of the tools modelled on their own is in use
ToolsIdle == SearchIdle /\ ThinkIdle /\ ExtractIdle

\* no research under way
ResearchIdle ==
    /\ now = 0
    /\ deadline = 0
    /\ max_depth = 0
    /\ current_depth = 0
    /\ cycles = << >>
    /\ research = "idle"

\* no agent is being run: the agent's variables stay at these values
AgentIdle ==
    /\ agent_kind = "none"
    /\ available_tools = {}
    /\ max_steps = 0
    /\ state = "IDLE"
    /\ current_step = 0
    /\ memory = << >>
    /\ tool_calls = << >>
    /\ duplicate_count = 0
    /\ inject = FALSE
    /\ thinks = << >>
    /\ dispatched = << >>

----------------------------------------------------------------------------
(* Initial states *)

Init ==
    /\ \E c \in Configs :
          /\ agents = c.agents
          /\ primary_agent_key = c.primary
          /\ executor_keys = c.executors
    /\ agent_state = [a \in agents |-> "IDLE"]
    /\ input_text \in Requests
    \* a stored plan matters only to a call that creates none: the planner's
    \* run of a creating call leaves any store behind, whatever it found
    /\ plans \in (IF input_text = "" THEN PlanStores ELSE {NoPlans})
    /\ current_step_index = NoIndex
    /\ step_info = NoInfo
    /\ result = << >>
    /\ ret = Pending
    /\ pc = "start"
    /\ selected = << >>
    /\ runs = << >>
    /\ ev = NoEvent
    /\ plan_text = NoText
    /\ rendered = 0
    /\ AgentIdle
    /\ BrowserIdle
    /\ MarkIdle
    /\ ResearchIdle
    /\ ToolsIdle

----------------------------------------------------------------------------
(* Actions *)

\* execute, up to the plan creation: the primary agent check
Execute ==
    /\ pc = "start"
    /\ pc' = AfterAgentCheck(primary_agent, input_text)
    /\ ret' = IF primary_agent = NoKey
              THEN Returned(<<Piece(NoPrimaryAgentText, NoIndex)>>)
              ELSE ret
    /\ ev' = [NoEvent EXCEPT !.op = "execute"]
    /\ UNCHANGED <<agents, primary_agent_key, executor_keys, agent_state,
                   input_text, plans, current_step_index, step_info, result,
                   selected, runs, auxVars>>

\* _create_initial_plan and the check of execute that follows it
CreateInitialPlan ==
    /\ pc = "create"
    /\ \E po \in RunOutcomes, st \in PostRunStates, co \in ToolOutcomes,
          after \in PlanStores \cup {Stored(EmptyPlan)} :
          LET agent == IF planner # NoKey THEN planner ELSE primary_agent
              needDefault == po = "raise" \/ PlanMissingOrEmpty(after)
              final == IF needDefault THEN CreateDefaultPlan(after, co)
                       ELSE after
          IN  /\ agent_state' = [agent_state EXCEPT ![agent] = st]
              /\ runs' = Append(runs, AgentRun(agent, "plan"))
              /\ plans' = final
              /\ ev' = [NoEvent EXCEPT !.op = "create", !.planner = po,
                                       !.agent = agent,
                                       !.empty = PlanMissingOrEmpty(after),
                                       !.create = IF needDefault THEN co ELSE "none"]
              /\ IF ActivePlanId \notin DOMAIN final
                 THEN /\ ret' = Returned(<<Piece("Failed to create plan for", NoIndex)>>)
                      /\ pc' = "done"
                 ELSE /\ pc' = "loop"
                      /\ UNCHANGED ret
    /\ UNCHANGED <<agents, primary_agent_key, executor_keys, input_text,
                   current_step_index, step_info, result, selected,
                   auxVars>>

\* one pass of the loop head: _get_current_step_info
GetCurrentStepInfo ==
    /\ pc = "loop"
    /\ LET i == IF ActivePlanId \in DOMAIN plans
                THEN FirstActiveStep(plans[ActivePlanId], 0) ELSE NoIndex
       IN  IF i = NoIndex
           THEN /\ current_step_index' = NoIndex
                /\ step_info' = NoInfo
                /\ pc' = "finalize"
                /\ ev' = [NoEvent EXCEPT !.op = "select"]
                /\ UNCHANGED <<plans, selected>>
           ELSE /\ Len(selected) < MaxSelections
                /\ \E mo \in ToolOutcomes :
                      /\ plans' = MarkInProgress(plans, i, mo)
                      /\ ev' = [NoEvent EXCEPT !.op = "select", !.mark = mo,
                                   !.status = StatusOf(plans[ActivePlanId], i)]
                /\ current_step_index' = i
                /\ step_info' = [text |-> plans[ActivePlanId].steps[i + 1],
                                 type |-> StepType(plans[ActivePlanId].steps[i + 1])]
                /\ selected' = Append(selected, i)
                /\ pc' = "exec"
    /\ UNCHANGED <<agents, primary_agent_key, executor_keys, agent_state,
                   input_text, result, ret, runs, auxVars>>

\* the rest of the pass: get_executor, _execute_step, the FINISHED check
ExecuteStep ==
    /\ pc = "exec"
    /\ \E ro \in StepRunOutcomes, st \in PostRunStates, mo \in ToolOutcomes :
          LET executor == get_executor(step_info.type)
              piece == Piece(IF ro = "raise" THEN "Error executing step" ELSE "step",
                             current_step_index)
          IN  /\ agent_state' = [agent_state EXCEPT ![executor] = st]
              /\ runs' = Append(runs, AgentRun(executor, "step"))
              /\ plans' = StepExecuted(plans, current_step_index, ro, mo)
              /\ ev' = [NoEvent EXCEPT !.op = "step", !.run = ro,
                                       !.mark = IF ro = "raise" THEN "none" ELSE mo,
                                       !.status = ev.status,
                                       !.agent = executor]
              /\ IF ro = "nontext"
                 THEN \* result += step_result + "\n" faults: the outer except
                      /\ ret' = Returned(<<Piece(StepResultFaultText, NoIndex)>>)
                      /\ pc' = "done"
                      /\ UNCHANGED result
                 ELSE /\ result' = Append(result, piece)
                      /\ IF ShouldStop(st)
                         THEN /\ ret' = Returned(Append(result, piece))
                              /\ pc' = "done"
                         ELSE /\ pc' = "loop"
                              /\ UNCHANGED ret
    /\ UNCHANGED <<agents, primary_agent_key, executor_keys, input_text,
                   current_step_index, step_info, selected, auxVars>>

\* _finalize_plan, and the return of execute
FinalizePlan ==
    /\ pc = "finalize"
    /\ \E po \in RunOutcomes, st \in PostRunStates :
          LET agent == IF planner # NoKey THEN planner ELSE primary_agent
              piece == Piece(SummaryText(po), NoIndex)
          IN  /\ agent_state' = [agent_state EXCEPT ![agent] = st]
              /\ runs' = Append(runs, AgentRun(agent, "summary"))
              /\ result' = Append(result, piece)
              /\ ret' = Returned(Append(result, piece))
              /\ ev' = [NoEvent EXCEPT !.op = "finalize", !.planner = po,
                                       !.agent = agent]
    /\ pc' = "done"
    /\ UNCHANGED <<agents, primary_agent_key, executor_keys, input_text,
                   plans, current_step_index, step_info, selected, auxVars>>

Next ==
    \/ Execute
    \/ CreateInitialPlan
    \/ GetCurrentStepInfo
    \/ ExecuteStep
    \/ FinalizePlan

Spec == Init /\ [][Next]_vars

----------------------------------------------------------------------------
(* Rendering the plan text from storage, between direct mutations *)

\* no flow configured: the flow's own variables stay at these values
FlowIdle ==
    /\ agents = {}
    /\ primary_agent_key = NoKey
    /\ executor_keys = << >>
    /\ agent_state = [k \in {} |-> "IDLE"]
    /\ input_text = ""
    /\ current_step_index = NoIndex
    /\ step_info = NoInfo
    /\ result = << >>
    /\ ret = Pending
    /\ selected = << >>
    /\ runs = << >>
    /\ ev = NoEvent

RenderInit ==
    /\ FlowIdle
    /\ plans \in PlanStores
    /\ pc = "render"
    /\ plan_text = NoText
    /\ rendered = 0
    /\ AgentIdle
    /\ BrowserIdle
    /\ MarkIdle
    /\ ResearchIdle
    /\ ToolsIdle

\* one call of _generate_plan_text_from_storage
GeneratePlanText ==
    /\ pc = "render"
    /\ rendered < MaxRenders
    /\ plan_text' = GeneratePlanTextFromStorage(plans)
    /\ plans' = StorageAfterRender(plans)
    /\ rendered' = rendered + 1
    /\ UNCHANGED renderRest

\* a status written straight into the stored plan
MutatePlan ==
    /\ pc = "render"
    /\ HasStoredPlan(plans)
    /\ \E i \in Indices(Len(plans[ActivePlanId].steps)), s \in Statuses :
          plans' = SetStatusDirect(plans, i, s)
    /\ rendered' = 0
    /\ UNCHANGED <<renderRest, plan_text>>

RenderNext == GeneratePlanText \/ MutatePlan

RenderSpec == RenderInit /\ [][RenderNext]_vars

----------------------------------------------------------------------------
(* The agent loop: run, step (think, act), stuck-loop detection *)

AgentInit ==
    /\ FlowIdle
    /\ plans = NoPlans
    /\ plan_text = NoText
    /\ rendered = 0
    /\ pc = "agent_idle"
    /\ agent_kind \in AgentKinds
    /\ available_tools \in ToolsOf(agent_kind)
    /\ MarkIdle
    /\ ResearchIdle
    /\ ToolsIdle
    /\ browser = FALSE
    /\ context = FALSE
    /\ dom_service = FALSE
    /\ released = << >>
    /\ lock = NoTask
    /\ task_pc = << >>
    /\ task_call = << >>
    /\ task_result = << >>
    /\ max_steps \in StepBudgets
    /\ state = "IDLE"
    /\ current_step = 0
    /\ memory = << >>
    /\ tool_calls = << >>
    /\ duplicate_count = 0
    /\ inject = FALSE
    /\ thinks = << >>
    /\ dispatched = << >>

\* entry of run: IDLE becomes RUNNING, the prompt goes to memory
Run ==
    /\ pc = "agent_idle"
    /\ state = "IDLE"
    /\ state' = "RUNNING"
    /\ current_step' = 0
    /\ memory' = Append(memory, UserMessage("request"))
    /\ pc' = "setup"
    /\ UNCHANGED <<agentRest, sessionVars, agent_kind, available_tools,
                   max_steps, tool_calls, duplicate_count, inject, thinks,
                   dispatched>>

\* the setup fault: a tool-calling agent with no tool configured
Setup ==
    /\ pc = "setup"
    /\ IF agent_kind = "toolcall" /\ available_tools = {}
       THEN /\ state' = "ERROR"
            /\ pc' = "agent_done"
       ELSE /\ state' = state
            /\ pc' = IF LoopContinues(state, current_step, max_steps)
                     THEN "think" ELSE "agent_done"
    /\ UNCHANGED <<agentRest, sessionVars, agent_kind, available_tools,
                   max_steps, current_step, memory, tool_calls,
                   duplicate_count, inject, thinks, dispatched>>

\* think of a tool-calling agent: one request to the completion service
Think ==
    /\ pc = "think"
    /\ agent_kind \in {"toolcall", "browser"}
    /\ \E content \in Contents, names \in CallListsOf(agent_kind) :
          LET calls == Calls(names, current_step)
          IN  /\ memory' = Append(memory, AssistantMessage(content, calls))
              /\ thinks' = Append(thinks, [content |-> content,
                                           injected |-> inject])
              /\ tool_calls' = calls
              /\ pc' = IF calls = << >> THEN "check" ELSE "act"
    /\ inject' = FALSE
    /\ UNCHANGED <<agentRest, sessionVars, agent_kind, available_tools,
                   max_steps, state, current_step, duplicate_count,
                   dispatched>>

\* CoTAgent.step
CoTStep ==
    /\ pc = "think"
    /\ agent_kind = "cot"
    /\ \E content \in Contents :
          LET prompted == IF Len(memory) > 1
                          THEN Append(memory, UserMessage("next step"))
                          ELSE memory
          IN  /\ memory' = Append(prompted, AssistantMessage(content, << >>))
              /\ thinks' = Append(thinks, [content |-> content,
                                           injected |-> inject])
    /\ state' = "FINISHED"
    /\ inject' = FALSE
    /\ pc' = "check"
    /\ UNCHANGED <<agentRest, sessionVars, agent_kind, available_tools,
                   max_steps, current_step, tool_calls, duplicate_count,
                   dispatched>>

\* act: the dispatcher handles one tool call; a successful special tool call
\* of an agent that holds the browser goes through _handle_special_tool
ExecuteTool ==
    /\ pc = "act"
    /\ tool_calls # << >>
    /\ LET call == NextCall(tool_calls)
       IN  \E outcome \in (IF call.name \in available_tools
                            THEN ExecOutcomes ELSE {"unknown"}) :
              /\ memory' = Append(memory,
                                  ToolMessage(call.id, ToolResultOf(outcome)))
              /\ dispatched' = Append(dispatched,
                                      [id |-> call.id, name |-> call.name,
                                       outcome |-> outcome])
              /\ tool_calls' = RestCalls(tool_calls, outcome)
              /\ IF outcome = "ok" /\ call.name \in SpecialTools
                 THEN IF agent_kind = "browser"
                      THEN /\ pc' = HandleSpecialTool[1]
                           /\ state' = state
                      ELSE /\ pc' = AfterCall(RestCalls(tool_calls, outcome))
                           /\ state' = "FINISHED"
                 ELSE /\ pc' = AfterCall(RestCalls(tool_calls, outcome))
                      /\ state' = state
              /\ \E session \in SessionAfter(call.name, outcome, browser,
                                              context, dom_service) :
                    SessionBecomes(session)
    /\ UNCHANGED <<agentRest, released, agent_kind, available_tools,
                   max_steps, current_step, duplicate_count, inject, thinks>>

\* BrowserUseTool.cleanup, called by _handle_special_tool
Cleanup ==
    /\ pc = "cleanup"
    /\ SessionBecomes(CleanedSession(browser, context, dom_service))
    /\ released' = Append(released, dispatched[Len(dispatched)].id)
    /\ pc' = AfterSpecialStep("cleanup", tool_calls)
    /\ UNCHANGED <<agentRest, agentVars>>

\* ToolCallAgent._handle_special_tool, called by the override
FinishExecution ==
    /\ pc = "finish"
    /\ state' = "FINISHED"
    /\ pc' = AfterSpecialStep("finish", tool_calls)
    /\ UNCHANGED <<agentRest, sessionVars, agent_kind, available_tools,
                   max_steps, current_step, memory, tool_calls,
                   duplicate_count, inject, thinks, dispatched>>

\* the end of a step: the counter, the stuck-loop detection, the loop test
FinishStep ==
    /\ pc = "check"
    /\ current_step' = current_step + 1
    /\ LET count == CountDuplicates(memory, duplicate_count)
       IN  IF IsStuck(count)
           THEN inject' = TRUE /\ duplicate_count' = 0
           ELSE inject' = inject /\ duplicate_count' = count
    /\ IF LoopContinues(state, current_step + 1, max_steps)
       THEN /\ pc' = "think"
            /\ state' = state
       ELSE /\ pc' = "agent_done"
            /\ state' = StateAfterLoop(state)
    /\ UNCHANGED <<agentRest, sessionVars, agent_kind, available_tools,
                   max_steps, memory, tool_calls, thinks, dispatched>>

AgentNext ==
    \/ Run
    \/ Setup
    \/ Think
    \/ CoTStep
    \/ ExecuteTool
    \/ Cleanup
    \/ FinishExecution
    \/ FinishStep

AgentSpec == AgentInit /\ [][AgentNext]_vars

----------------------------------------------------------------------------
(* Properties *)

HasPlan == ActivePlanId \in DOMAIN plans
ActivePlan == plans[ActivePlanId]
NumSteps == Len(ActivePlan.steps)
StoredStatus(ps, i, s) ==
    /\ i \in DOMAIN ps[ActivePlanId].step_status
    /\ ps[ActivePlanId].step_status[i] = s
LastPiece(text) == text[Len(text)]
NoExecutorRaised ==
    \A k \in 1 .. Len(result) : result[k].kind # "Error executing step"

\* C1: when the planner's run raised, or returned with the plan missing or
\* without steps, and the create command succeeded or raised, the plan left by
\* plan creation has exactly the steps "Analyze request", "Execute task",
\* "Verify results", in that order, each stored as not_started.
C1_DefaultPlanInstalled ==
    (/\ ev.op = "create"
     /\ ev.planner = "raise" \/ ev.empty
     /\ ev.create \in {"ok", "raise"})
    => /\ HasPlan
       /\ ActivePlan.steps = <<"Analyze request", "Execute task", "Verify results">>
       /\ DOMAIN ActivePlan.step_status = {0, 1, 2}
       /\ \A i \in {0, 1, 2} : ActivePlan.step_status[i] = "not_started"

\* C1 witness: the planner raised, create raised too, and the plan written to
\* the storage directly is in place.
C1_Witness ==
    /\ ev.op = "create" /\ ev.planner = "raise" /\ ev.create = "raise"
    /\ HasPlan /\ ActivePlan.title = "Emergency Plan for"
    /\ pc = "loop"

\* C2: for a non-empty request, the plan has at least one step whenever
\* execute is at the head of its step loop, whatever the planner's run and the
\* create command did.
C2_NonEmptyPlanInLoop ==
    (pc = "loop" /\ input_text # "") => (HasPlan /\ NumSteps >= 1)

\* C3: step selection returns the lowest index whose status (absent entries
\* read as not_started) is not_started or in_progress; it returns no step
\* exactly when the plan is missing or every step is completed or blocked.
C3_LowestActiveSelected ==
    [][pc = "loop" =>
        LET i == current_step_index' IN
        IF ~HasPlan THEN i = NoIndex
        ELSE /\ (i = NoIndex) <=>
                    (\A j \in Indices(NumSteps) :
                        StatusOf(ActivePlan, j) \in {"completed", "blocked"})
             /\ i # NoIndex =>
                    /\ i \in Indices(NumSteps)
                    /\ StatusOf(ActivePlan, i) \in {"not_started", "in_progress"}
                    /\ \A j \in 0 .. (i - 1) :
                        StatusOf(ActivePlan, j) \in {"completed", "blocked"}]_vars

\* C3 witness: step 1 was selected past a blocked step 0.
C3_Witness ==
    /\ pc = "exec" /\ current_step_index = 1
    /\ HasPlan /\ StatusOf(ActivePlan, 0) = "blocked"

\* C4: in the step loop, a step whose stored status is completed keeps that
\* status through every action of the flow.
C4_CompletedNeverReverts ==
    [][(pc \in {"loop", "exec", "finalize"} /\ HasPlan) =>
        \A i \in Indices(NumSteps) :
            StoredStatus(plans, i, "completed") =>
                StoredStatus(plans', i, "completed")]_vars

\* C4 witness: step 0 was executed and completed in this call and a later
\* step has been selected since.
C4_Witness ==
    /\ pc = "exec" /\ current_step_index = 1
    /\ Len(result) >= 1 /\ result[1] = Piece("step", 0)
    /\ HasPlan /\ StoredStatus(plans, 0, "completed")

ReturnedFromLoop ==
    /\ pc = "done" /\ ret.returned
    /\ primary_agent # NoKey
    /\ HasPlan /\ NumSteps >= 1
    /\ \A k \in 1 .. Len(ret.text) : ret.text[k].kind # "Error executing step"

\* C5 as stated: once execute has returned for a plan of at least one step and
\* no executor run raised, the returned text is non-empty and every step is
\* completed.
C5_AllCompletedAtReturn ==
    ReturnedFromLoop =>
        /\ Len(ret.text) > 0
        /\ \A i \in Indices(NumSteps) : StatusOf(ActivePlan, i) = "completed"

\* C5 amended: once execute has returned for a plan of at least one step and
\* no executor run raised, the returned text is non-empty; and if it returned
\* through finalization (not stopped by a FINISHED executor), every step is
\* completed or blocked and every step selected in the call is completed.
C5_CompletedOrBlockedAtFinalReturn ==
    ReturnedFromLoop =>
        /\ Len(ret.text) > 0
        /\ LastPiece(ret.text).index = NoIndex /\ ev.op = "finalize" =>
              /\ \A i \in Indices(NumSteps) :
                    StatusOf(ActivePlan, i) \in {"completed", "blocked"}
              /\ \A k \in 1 .. Len(selected) :
                    StatusOf(ActivePlan, selected[k]) = "completed"

\* C5 witness: the three default steps were executed in turn, all are
\* completed, and execute returned through finalization.
C5_Witness ==
    /\ ReturnedFromLoop /\ ev.op = "finalize"
    /\ ActivePlan.steps = DefaultSteps
    /\ selected = <<0, 1, 2>>
    /\ \A i \in {0, 1, 2} : StatusOf(ActivePlan, i) = "completed"

\* C6: as long as no executor run raised, the step loop has made at most N
\* selections for a plan of N steps, each on a different step, in increasing
\* index order.
C6_AtMostNSelections ==
    (HasPlan /\ NoExecutorRaised) =>
        /\ Len(selected) <= NumSteps
        /\ \A k \in 1 .. (Len(selected) - 1) : selected[k] < selected[k + 1]

\* C7: every pass of the step loop makes progress: when the execution of the
\* selected step ends, the step's status differs from the status it was
\* selected with, whatever the executor did (so no step is selected forever).
C7_EveryPassChangesStatus ==
    ev.op = "step" => StatusOf(ActivePlan, current_step_index) # ev.status

\* C8 as stated: after an executor run that raised, the step is in_progress,
\* the result ends with the error text of that step, and the step loop
\* continues.
C8_RaiseKeepsInProgressAndContinues ==
    (ev.op = "step" /\ ev.run = "raise") =>
        /\ StoredStatus(plans, current_step_index, "in_progress")
        /\ LastPiece(result) = Piece("Error executing step", current_step_index)
        /\ pc = "loop"

\* C8 amended: an executor run that raises leaves the plan as it was (the
\* step is not marked completed and keeps the status it had when it was
\* executed), appends the error text of that step to the result, and does
\* not abort execute: the loop continues, unless the executor's state is
\* FINISHED, in which case execute returns the result.
C8_RaiseLeavesStatusAndContinues ==
    [][(pc = "exec" /\ ev'.op = "step" /\ ev'.run = "raise") =>
        /\ plans' = plans
        /\ ~StoredStatus(plans', current_step_index, "completed")
        /\ result' = Append(result, Piece("Error executing step", current_step_index))
        /\ IF agent_state'[get_executor(step_info.type)] = "FINISHED"
           THEN pc' = "done" /\ ret' = Returned(result')
           ELSE pc' = "loop" /\ ret' = Pending]_vars

\* C8 witness: the executor raised on step 0, which is still in_progress, and
\* the loop is about to select again.
C8_Witness ==
    /\ ev.op = "step" /\ ev.run = "raise" /\ pc = "loop"
    /\ current_step_index = 0
    /\ StoredStatus(plans, 0, "in_progress")
    /\ LastPiece(result) = Piece("Error executing step", 0)

\* C9: when step selection has returned step i, the stored status of step i is
\* in_progress, whether mark_step succeeded or failed.
C9_SelectedIsInProgress ==
    (ev.op = "select" /\ current_step_index # NoIndex) =>
        StoredStatus(plans, current_step_index, "in_progress")

\* C10: when the executor's run for step i has returned without raising, the
\* stored status of step i is completed, whether mark_step succeeded or failed.
C10_ExecutedIsCompleted ==
    (ev.op = "step" /\ ev.run = "ok") =>
        StoredStatus(plans, current_step_index, "completed")

\* the positions of the executor list that name a registered agent
RegisteredPositions == {k \in 1..Len(executor_keys) : executor_keys[k] \in agents}

\* C11: the agent a step is run on is the one registered under the step's
\* type when there is one, else the agent of the first key of the executor
\* list that is registered, else the primary agent.
C11_ExecutorByTypeThenListThenPrimary ==
    ev.op = "step" =>
        ev.agent =
            IF step_info.type \in agents THEN step_info.type
            ELSE IF RegisteredPositions # {}
                 THEN executor_keys[CHOOSE k \in RegisteredPositions :
                                       \A j \in RegisteredPositions : k <= j]
                 ELSE primary_agent_key

\* a typed step went to the agent of its type although another key comes
\* first in the executor list
C11_Witness ==
    /\ ev.op = "step"
    /\ step_info.type = "search"
    /\ ev.agent = "search"
    /\ executor_keys[1] # "search"

\* C12: once a step has been executed and left its executor FINISHED,
\* execute takes no further step of any kind: it has returned.
C12_FinishedExecutorEndsLoop ==
    [][~(ev.op = "step" /\ agent_state[ev.agent] = "FINISHED")]_vars

\* execute returned after a FINISHED executor while a step was still eligible
C12_Witness ==
    /\ pc = "done"
    /\ ev.op = "step"
    /\ ev.run = "ok"
    /\ agent_state[ev.agent] = "FINISHED"
    /\ \E i \in Indices(NumSteps) : StatusOf(ActivePlan, i) = "not_started"

SummaryRuns == {k \in 1..Len(runs) : runs[k].purpose = "summary"}

\* C13: when execute has finalized, no eligible step remains, the planner
\* was run exactly once for the summary, and the returned text is the step
\* results in the order the steps were executed followed by the summary, or
\* by the fixed error text when the summary run raised.
C13_ResultsThenSummary ==
    /\ pc = "finalize" => SummaryRuns = {}
    /\ ev.op = "finalize" =>
          /\ HasPlan =>
                \A i \in Indices(NumSteps) :
                    StatusOf(ActivePlan, i) \notin ActiveStatuses
          /\ SummaryRuns = {Len(runs)}
          /\ runs[Len(runs)].agent = planner_key
          /\ ret = Returned(result)
          /\ Len(result) = Len(selected) + 1
          /\ \A k \in 1..Len(selected) :
                /\ result[k].index = selected[k]
                /\ result[k].kind \in {"step", "Error executing step"}
          /\ LastPiece(result) =
                Piece(IF ev.planner = "raise"
                      THEN "Plan completed. Error generating summary."
                      ELSE "Plan completed:", NoIndex)

\* two steps were executed and the summary run raised
C13_Witness ==
    /\ ev.op = "finalize"
    /\ ev.planner = "raise"
    /\ Len(selected) >= 2

\* C14: execute always returns a text. Without a primary agent it returns
\* the 'No primary agent available' failure at once, creating no plan and
\* running no agent; a fault of the loop body is returned as an
\* 'Execution failed' text.
C14_ExecuteNeverRaises ==
    [][/\ (pc = "start" /\ primary_agent = NoKey) =>
            /\ pc' = "done"
            /\ ret' = Returned(<<Piece(NoPrimaryAgentText, NoIndex)>>)
            /\ plans' = plans
            /\ agent_state' = agent_state
            /\ runs' = << >>
       /\ ev'.run = "nontext" =>
            /\ pc' = "done"
            /\ ret'.returned
            /\ Len(ret'.text) = 1
            /\ ret'.text[1].kind \in ExecutionFailedTexts
       /\ pc' = "done" => ret'.returned]_vars

\* agents are registered but the primary key names none of them
C14_Witness ==
    /\ pc = "done"
    /\ primary_agent = NoKey
    /\ agents # {}
    /\ runs = << >>

----
\* The browser tool shared by several tasks.

Tasks == {1, 2}

\* actions of the tool: one whose argument execute checks, one whose declared
\* argument execute replaces by a default, one without arguments, and one the
\* parameters declare while execute has no branch for it
BrowserActions == {"navigate", "scroll_down", "go_back", "new_tab"}

\* the "dependencies" of the tool's parameters: the action requires arguments
DeclaredRequired(action) == action \in {"navigate", "scroll_down", "new_tab"}

\* the branches of execute
KnownActions == {"navigate", "scroll_down", "go_back"}

\* faulty variant: no branch checks its arguments
ChecksArguments_Never(action) == FALSE

\* the branches of execute that return an error when the argument is absent
ChecksArguments(action) == action = "navigate"

NoReturn == [call |-> NoCall, output |-> "", error |-> "", raised |-> FALSE]

\* the ToolResult of the action once the browser is initialized; args tells
\* that the declared arguments were passed, outcome what the browser did
ExecuteResult(call, outcome) ==
    IF call.action \notin KnownActions
    THEN [call |-> call, output |-> "", error |-> "Unknown action",
          raised |-> FALSE]
    ELSE IF ChecksArguments(call.action) /\ ~call.args
    THEN [call |-> call, output |-> "", error |-> "argument is required",
          raised |-> FALSE]
    ELSE IF outcome = "raise"
    THEN [call |-> call, output |-> "", error |-> "Browser action failed",
          raised |-> FALSE]
    ELSE [call |-> call, output |-> "done", error |-> "", raised |-> FALSE]

\* faulty variant: cleanup closes the session without taking the lock
LockedOps_ExecuteOnly == {"execute"}

\* the operations of the tool whose body is inside "async with self.lock"
LockedOps == {"execute", "cleanup"}

\* the task is inside the body of execute or of cleanup
InSection(t) == task_pc[t] \in {"init", "op", "closing"}

BrowserInit ==
    /\ FlowIdle
    /\ plans = NoPlans
    /\ plan_text = NoText
    /\ rendered = 0
    /\ AgentIdle
    /\ MarkIdle
    /\ ResearchIdle
    /\ ToolsIdle
    /\ pc = "browser"
    /\ browser = FALSE
    /\ context = FALSE
    /\ dom_service = FALSE
    /\ released = << >>
    /\ lock = NoTask
    /\ task_pc = [t \in Tasks |-> "idle"]
    /\ task_call = [t \in Tasks |-> NoCall]
    /\ task_result = [t \in Tasks |-> NoReturn]

\* a task calls execute with an action, with or without its arguments
CallExecute(t) ==
    /\ task_pc[t] = "idle"
    /\ \E action \in BrowserActions, args \in BOOLEAN :
          task_call' = [task_call EXCEPT ![t] =
                           [op |-> "execute", action |-> action,
                            args |-> args]]
    /\ task_pc' = [task_pc EXCEPT ![t] = "acquire"]
    /\ UNCHANGED <<browserRest, browser, context, dom_service, lock, task_result>>

\* a task calls cleanup
CallCleanup(t) ==
    /\ task_pc[t] = "idle"
    /\ task_call' = [task_call EXCEPT ![t] =
                         [op |-> "cleanup", action |-> "none", args |-> FALSE]]
    /\ task_pc' = [task_pc EXCEPT ![t] = "acquire"]
    /\ UNCHANGED <<browserRest, browser, context, dom_service, lock, task_result>>

\* get_browser_state: get_current_state is called without the context it
\* requires, the fault is caught and None is returned; the session is not
\* touched
GetBrowserState(t) ==
    /\ task_pc[t] = "idle"
    /\ task_call' = [task_call EXCEPT ![t] =
                         [op |-> "get_browser_state", action |-> "none",
                          args |-> FALSE]]
    /\ task_result' = [task_result EXCEPT ![t] =
                           [NoReturn EXCEPT !.call = task_call'[t]]]
    /\ UNCHANGED <<browserRest, browser, context, dom_service, lock, task_pc>>

\* "async with self.lock": the task enters the body when the lock is free
Acquire(t) ==
    /\ task_pc[t] = "acquire"
    /\ IF task_call[t].op \in LockedOps
       THEN lock = NoTask /\ lock' = t
       ELSE lock' = lock
    /\ task_pc' = [task_pc EXCEPT ![t] =
                       IF task_call[t].op = "execute" THEN "init"
                       ELSE "closing"]
    /\ UNCHANGED <<browserRest, browser, context, dom_service, task_call, task_result>>

\* the lock as the task leaves the body
Released(t) == IF lock = t THEN NoTask ELSE lock

\* _ensure_browser_initialized inside execute; its fault is caught by execute
EnsureBrowserInitialized(t) ==
    /\ task_pc[t] = "init"
    /\ \E outcome \in ExecOutcomes :
          IF outcome = "ok"
          THEN /\ SessionBecomes(InitializedSession(browser, context,
                                                     dom_service))
               /\ task_pc' = [task_pc EXCEPT ![t] = "op"]
               /\ UNCHANGED <<lock, task_result>>
          ELSE /\ \E session \in HalfInitializedSessions(browser, context,
                                                          dom_service) :
                     SessionBecomes(session)
               /\ task_result' = [task_result EXCEPT ![t] =
                                      [call |-> task_call[t], output |-> "",
                                       error |-> "Browser action failed",
                                       raised |-> FALSE]]
               /\ lock' = Released(t)
               /\ task_pc' = [task_pc EXCEPT ![t] = "idle"]
    /\ UNCHANGED <<browserRest, task_call>>

\* the branch of execute for the action
BrowserOperation(t) ==
    /\ task_pc[t] = "op"
    /\ \E outcome \in ExecOutcomes :
          task_result' = [task_result EXCEPT ![t] =
                             ExecuteResult(task_call[t], outcome)]
    /\ lock' = Released(t)
    /\ task_pc' = [task_pc EXCEPT ![t] = "idle"]
    /\ UNCHANGED <<browserRest, browser, context, dom_service, task_call>>

\* the body of cleanup: it returns, or a close faults and cleanup raises
CloseSession(t) ==
    /\ task_pc[t] = "closing"
    /\ \/ /\ SessionBecomes(CleanedSession(browser, context, dom_service))
          /\ task_result' = [task_result EXCEPT ![t] =
                                 [NoReturn EXCEPT !.call = task_call[t]]]
       \/ /\ \E session \in HalfCleanedSessions(browser, context,
                                                 dom_service) :
                SessionBecomes(session)
          /\ task_result' = [task_result EXCEPT ![t] =
                                 [NoReturn EXCEPT !.call = task_call[t],
                                                  !.raised = TRUE]]
    /\ lock' = Released(t)
    /\ task_pc' = [task_pc EXCEPT ![t] = "idle"]
    /\ UNCHANGED <<browserRest, task_call>>

BrowserNext ==
    \E t \in Tasks :
        \/ CallExecute(t)
        \/ CallCleanup(t)
        \/ GetBrowserState(t)
        \/ Acquire(t)
        \/ EnsureBrowserInitialized(t)
        \/ BrowserOperation(t)
        \/ CloseSession(t)

BrowserSpec == BrowserInit /\ [][BrowserNext]_vars

----
\* The two writers of a plan's step_status: the command handler of the
\* planning tool, called for any agent that holds the tool, and the flow,
\* which awaits the handler and writes the mapping itself when the handler
\* raised.

MarkedPlan ==
    [title |-> "Planner",
     steps |-> [j \in 1 .. MaxSteps |-> StepTexts[(j % 2) + 1]],
     step_status |-> EmptyStatus]

MarkInit ==
    /\ FlowIdle
    /\ plans = Stored(MarkedPlan)
    /\ plan_text = NoText
    /\ rendered = 0
    /\ AgentIdle
    /\ BrowserIdle
    /\ ResearchIdle
    /\ ToolsIdle
    /\ pc = "mark"
    /\ written = EmptyStatus
    /\ mark_pc = "idle"
    /\ mark_req = NoRequest

\* the status last written for step i becomes s
Written(i, s) ==
    [j \in (DOMAIN written) \cup {i} |-> IF j = i THEN s ELSE written[j]]

\* the handler runs mark_step for a tool call of an agent
HandlerMark ==
    /\ \E i \in Indices(MaxSteps), s \in Statuses :
          /\ plans' = ToolMarkStep(plans, i, s)
          /\ written' = Written(i, s)
    /\ UNCHANGED <<markRest, mark_pc, mark_req>>

\* the flow calls mark_step: in_progress at selection, completed after a step
FlowMark ==
    /\ mark_pc = "idle"
    /\ \E i \in Indices(MaxSteps), s \in {"in_progress", "completed"} :
          mark_req' = [index |-> i, status |-> s, via |-> "none"]
    /\ mark_pc' = "awaiting"
    /\ UNCHANGED <<markRest, plans, written>>

\* the awaited call returns to the flow or raises
FlowMarkReturns ==
    /\ mark_pc = "awaiting"
    /\ \E mo \in ToolOutcomes :
          CASE mo = "ok" ->
                 /\ plans' = ToolMarkStep(plans, mark_req.index,
                                          mark_req.status)
                 /\ written' = Written(mark_req.index, mark_req.status)
                 /\ mark_pc' = "idle"
                 /\ mark_req' = [mark_req EXCEPT !.via = "handler"]
            [] mo = "raise" ->
                 /\ mark_pc' = "fallback"
                 /\ UNCHANGED <<plans, written, mark_req>>
            [] OTHER ->
                 /\ mark_pc' = "idle"
                 /\ UNCHANGED <<plans, written, mark_req>>
    /\ UNCHANGED markRest

\* the except branch: the flow sets the entry in the stored mapping
FlowFallback ==
    /\ mark_pc = "fallback"
    /\ plans' = SetStatusDirect(plans, mark_req.index, mark_req.status)
    /\ written' = Written(mark_req.index, mark_req.status)
    /\ mark_pc' = "idle"
    /\ mark_req' = [mark_req EXCEPT !.via = "fallback"]
    /\ UNCHANGED markRest

MarkNext == HandlerMark \/ FlowMark \/ FlowMarkReturns \/ FlowFallback

MarkSpec == MarkInit /\ [][MarkNext]_vars

----
\* DeepResearch: one execute call and the research cycles it starts.

\* the max_depth arguments tried, and the time limit in ticks of the clock
MaxDepthInputs == 0 .. MaxDepthInput
TimeLimit == 1

Min(a, b) == IF a < b THEN a ELSE b
Max(a, b) == IF a > b THEN a ELSE b

\* max(1, min(max_depth, 5))
ClampDepth(d) == Max(1, Min(d, 5))

\* how many follow-up queries the completion service returns (at most 3)
FollowUpCounts == {0, 1, 3}

\* what the awaited calls of a cycle come to: no search result or no insight,
\* a fault of the completion service or of the parsing of its response, or
\* a number of follow-up queries
WorkOutcomes ==
    {[kind |-> "empty", n |-> 0], [kind |-> "fault", n |-> 0]}
    \cup {[kind |-> "follow_ups", n |-> m] : m \in FollowUpCounts}

\* faulty variant: every follow-up query is dispatched
FollowUpsTaken_All(n) == n

\* follow_up_queries[:2]
FollowUpsTaken(n) == Min(n, 2)

NoParent == 0

\* a call of _research_graph: who awaits it, the deadline it was passed, the
\* time and the shared depth when it was created, the follow-ups it got
Cycle(parent, d) ==
    [parent |-> parent, pc |-> "entry", deadline |-> d, created |-> now,
     depth |-> current_depth, follow_ups |-> 0]

Children(c) == {k \in 1 .. Len(cycles) : cycles[k].parent = c}

\* the cycles once cycle c got its follow-up queries at depth d and created
\* n cycles for them
WithFollowUps(c, outcome, n, d) ==
    [k \in 1 .. (Len(cycles) + n) |->
        IF k = c
        THEN [cycles[c] EXCEPT !.pc = IF n > 0 THEN "join" ELSE "done",
                               !.follow_ups = outcome]
        ELSE IF k <= Len(cycles) THEN cycles[k]
        ELSE [Cycle(c, cycles[c].deadline) EXCEPT !.depth = d]]

\* asyncio.gather(*tasks) returns: every child has completed
GatherReturns(c) == \A k \in Children(c) : cycles[k].pc = "done"

\* asyncio.gather(*tasks) raises: a child has raised
GatherRaises(c) == \E k \in Children(c) : cycles[k].pc = "raised"

ResearchInit ==
    /\ FlowIdle
    /\ plans = NoPlans
    /\ plan_text = NoText
    /\ rendered = 0
    /\ AgentIdle
    /\ BrowserIdle
    /\ MarkIdle
    /\ ToolsIdle
    /\ pc = "research"
    /\ now = 0
    /\ deadline = 0
    /\ max_depth = 0
    /\ current_depth = 0
    /\ cycles = << >>
    /\ research = "idle"

\* time passes
Tick ==
    /\ pc = "research"
    /\ now < MaxTime
    /\ now' = now + 1
    /\ UNCHANGED <<researchRest, deadline, max_depth, current_depth, cycles,
                   research>>

\* execute up to the first call of _research_graph
ResearchExecute ==
    /\ pc = "research"
    /\ research = "idle"
    /\ \E d \in MaxDepthInputs : max_depth' = ClampDepth(d)
    /\ deadline' = now + TimeLimit
    /\ current_depth' = 0
    /\ cycles' = <<Cycle(NoParent, now + TimeLimit)>>
    /\ research' = "running"
    /\ UNCHANGED <<researchRest, now>>

\* the termination conditions at the start of a cycle
EnterCycle(c) ==
    /\ cycles[c].pc = "entry"
    /\ cycles' = [cycles EXCEPT ![c].pc =
                     IF now >= cycles[c].deadline \/ current_depth >= max_depth
                     THEN "done" ELSE "working"]
    /\ UNCHANGED <<researchRest, now, deadline, max_depth, current_depth,
                   research>>

\* the search, the insights and the follow-up queries of a cycle, then the
\* depth and the dispatch of the follow-up cycles
WorkCycle(c) ==
    /\ cycles[c].pc = "working"
    /\ \E outcome \in WorkOutcomes :
          CASE outcome.kind = "empty" ->
                 /\ cycles' = [cycles EXCEPT ![c].pc = "done"]
                 /\ UNCHANGED current_depth
            [] outcome.kind = "fault" ->
                 /\ cycles' = [cycles EXCEPT ![c].pc = "raised"]
                 /\ UNCHANGED current_depth
            [] OTHER ->
                 LET n == IF outcome.n > 0 /\ current_depth + 1 < max_depth
                               /\ now < cycles[c].deadline
                          THEN FollowUpsTaken(outcome.n) ELSE 0
                 IN  /\ current_depth' = current_depth + 1
                     /\ cycles' = WithFollowUps(c, outcome.n, n,
                                                current_depth + 1)
    /\ UNCHANGED <<researchRest, now, deadline, max_depth, research>>

\* the gather of a cycle returns or raises
JoinCycle(c) ==
    /\ cycles[c].pc = "join"
    /\ \/ /\ GatherRaises(c)
          /\ cycles' = [cycles EXCEPT ![c].pc = "raised"]
       \/ /\ GatherReturns(c)
          /\ cycles' = [cycles EXCEPT ![c].pc = "done"]
    /\ UNCHANGED <<researchRest, now, deadline, max_depth, current_depth,
                   research>>

\* the end of execute: only a ToolError is caught
ResearchReturn ==
    /\ research = "running"
    /\ cycles[1].pc \in {"done", "raised"}
    /\ research' = IF cycles[1].pc = "done" THEN "summary" ELSE "raised"
    /\ UNCHANGED <<researchRest, now, deadline, max_depth, current_depth,
                   cycles>>

ResearchNext ==
    \/ Tick
    \/ ResearchExecute
    \/ ResearchReturn
    \/ \E c \in DOMAIN cycles :
          \/ EnterCycle(c)
          \/ WorkCycle(c)
          \/ JoinCycle(c)

ResearchSpec == ResearchInit /\ [][ResearchNext]_vars

----
\* WebSearch: one execute call, its rounds over the engines.

\* WebSearch._search_engine
RegisteredEngines == <<"google", "baidu", "duckduckgo", "bing">>

\* str.lower on the engine names a configuration may hold
Lower(name) ==
    CASE name = "Google" -> "google"
      [] name = "DuckDuckGo" -> "duckduckgo"
      [] name = "Baidu" -> "baidu"
      [] name = "Bing" -> "bing"
      [] name = "Yahoo" -> "yahoo"
      [] OTHER -> name

\* the settings tried: the defaults of SearchSettings, no fallback, a
\* preferred engine that is not registered, and fallbacks naming an engine
\* twice and the preferred one again
PreferredEngines == {"Google", "bing", "Yahoo", ""}
FallbackLists ==
    {<<"DuckDuckGo", "Baidu", "Bing">>, << >>, <<"Bing", "Bing", "Google">>}
SearchConfigs ==
    [engine : PreferredEngines, fallback_engines : FallbackLists,
     max_retries : 0 .. MaxRetries]

InSeq(x, seq) == \E k \in 1 .. Len(seq) : seq[k] = x

\* the loop over the fallback engines
RECURSIVE AddFallbacks(_, _, _)
AddFallbacks(order, fallbacks, k) ==
    IF k > Len(fallbacks) THEN order
    ELSE LET fallback == Lower(fallbacks[k])
         IN  AddFallbacks(IF InSeq(fallback, RegisteredEngines)
                               /\ ~InSeq(fallback, order)
                          THEN Append(order, fallback) ELSE order,
                          fallbacks, k + 1)

\* _get_engine_order
GetEngineOrder(cfg) ==
    LET preferred == IF cfg.engine # "" THEN Lower(cfg.engine) ELSE "google"
        first == IF InSeq(preferred, RegisteredEngines) THEN <<preferred>>
                 ELSE << >>
    IN  AddFallbacks(first, cfg.fallback_engines, 1)

\* range(max_retries + 1)
Rounds(max_retries) == max_retries + 1

\* faulty variant: retry_delay is waited after every failed round
WaitsAfterRound_Always(count, max_retries) == TRUE

\* retry_count < max_retries: retry_delay is waited after the round
WaitsAfterRound(count, max_retries) == count < max_retries

\* what one engine comes to, after the retries of _perform_search_with_engine
EngineOutcomes == {"links", "empty", "raise"}

WebInit ==
    /\ FlowIdle
    /\ plans = NoPlans
    /\ plan_text = NoText
    /\ rendered = 0
    /\ AgentIdle
    /\ BrowserIdle
    /\ MarkIdle
    /\ ResearchIdle
    /\ ThinkIdle
    /\ ExtractIdle
    /\ pc = "web"
    /\ search_config \in SearchConfigs
    /\ search_pc = "idle"
    /\ retry_count = 0
    /\ engine_order = << >>
    /\ engine_pos = 0
    /\ attempts = << >>
    /\ sleeps = << >>
    /\ links = << >>

\* execute enters its loop
SearchExecute ==
    /\ search_pc = "idle"
    /\ pc = "web"
    /\ retry_count' = 0
    /\ search_pc' = "round"
    /\ UNCHANGED <<searchRest, search_config, engine_order, engine_pos,
                   attempts, sleeps, links>>

\* _try_all_engines computes the order of the round
StartRound ==
    /\ search_pc = "round"
    /\ engine_order' = GetEngineOrder(search_config)
    /\ engine_pos' = 1
    /\ search_pc' = IF GetEngineOrder(search_config) = << >>
                    THEN "failed" ELSE "engine"
    /\ UNCHANGED <<searchRest, search_config, retry_count, attempts, sleeps,
                   links>>

\* one engine of the round is tried
TryEngine ==
    /\ search_pc = "engine"
    /\ attempts' = Append(attempts, [round |-> retry_count,
                                     engine |-> engine_order[engine_pos]])
    /\ \E outcome \in EngineOutcomes :
          IF outcome = "links"
          THEN /\ links' = <<engine_order[engine_pos]>>
               /\ search_pc' = "returned"
               /\ UNCHANGED engine_pos
          ELSE /\ links' = links
               /\ engine_pos' = engine_pos + 1
               /\ search_pc' = IF engine_pos < Len(engine_order)
                               THEN "engine" ELSE "failed"
    /\ UNCHANGED <<searchRest, search_config, retry_count, engine_order,
                   sleeps>>

\* the round gave no links: wait and go to the next round, or give up
RoundFailed ==
    /\ search_pc = "failed"
    /\ sleeps' = IF WaitsAfterRound(retry_count, search_config.max_retries)
                 THEN Append(sleeps, retry_count) ELSE sleeps
    /\ IF retry_count + 1 < Rounds(search_config.max_retries)
       THEN /\ retry_count' = retry_count + 1
            /\ search_pc' = "round"
       ELSE /\ retry_count' = retry_count
            /\ search_pc' = "returned"
    /\ UNCHANGED <<searchRest, search_config, engine_order, engine_pos,
                   attempts, links>>

WebNext == SearchExecute \/ StartRound \/ TryEngine \/ RoundFailed

WebSpec == WebInit /\ [][WebNext]_vars

----
\* Manus.think: the prompt of the next step around the think of the parent.
\* next_step_prompt counts the browser state texts appended to NEXT_STEP_PROMPT.

\* faulty variant: get_browser_state hands the context to get_current_state
PassesContext_Always == TRUE

\* get_browser_state calls browser_tool.get_current_state() with no argument
PassesContext == FALSE

\* BrowserUseTool.get_current_state(self, context): without its argument the
\* call faults; with it, it gives a result with the state or with an error
GetCurrentStateOutcomes(with_context) ==
    IF with_context THEN {"state", "error"} ELSE {"fault"}

\* get_browser_state: a fault and a result with an error both give None
BrowserStateOf(outcome) == IF outcome = "state" THEN "state" ELSE "None"

\* "if browser_state and not browser_state.get('error')": the text is appended
PromptWith(prompt, browser_state) ==
    IF browser_state # "None" THEN prompt + 1 ELSE prompt

\* what the think of the parent comes to: it returns, or the completion
\* service faults
SuperThinkOutcomes == {"returns", "raises"}

ThinkInit ==
    /\ FlowIdle
    /\ plans = NoPlans
    /\ plan_text = NoText
    /\ rendered = 0
    /\ AgentIdle
    /\ BrowserIdle
    /\ MarkIdle
    /\ ResearchIdle
    /\ SearchIdle
    /\ ExtractIdle
    /\ pc = "manus"
    /\ next_step_prompt = 0
    /\ original_prompt = 0
    /\ think_pc = "idle"
    /\ think_log = << >>

\* think up to the call of the parent: the browser state is asked for, the
\* prompt is kept and, with a state, extended
ManusThink ==
    /\ pc = "manus"
    /\ think_pc = "idle"
    /\ Len(think_log) < MaxThinks
    /\ \E outcome \in GetCurrentStateOutcomes(PassesContext) :
          next_step_prompt' = PromptWith(next_step_prompt,
                                         BrowserStateOf(outcome))
    /\ original_prompt' = next_step_prompt
    /\ think_pc' = "super"
    /\ UNCHANGED <<thinkRest, think_log>>

\* the think of the parent returns and the prompt is restored
SuperThinkReturns ==
    /\ think_pc = "super"
    /\ next_step_prompt' = original_prompt
    /\ think_log' = Append(think_log, [before |-> original_prompt,
                                       after |-> original_prompt,
                                       raised |-> FALSE])
    /\ think_pc' = "idle"
    /\ UNCHANGED <<thinkRest, original_prompt>>

\* the think of the parent faults: think is left before the restoring line
SuperThinkRaises ==
    /\ think_pc = "super"
    /\ think_log' = Append(think_log, [before |-> original_prompt,
                                       after |-> next_step_prompt,
                                       raised |-> TRUE])
    /\ think_pc' = "idle"
    /\ UNCHANGED <<thinkRest, next_step_prompt, original_prompt>>

ThinkNext == ManusThink \/ SuperThinkReturns \/ SuperThinkRaises

ThinkSpec == ThinkInit /\ [][ThinkNext]_vars

----
\* DeepResearch._extract_insights run by two research cycles of one execute
\* call over one ResearchContext.

ExtractTasks == {1, 2}

\* the search results a cycle may hold: pages with content and one without
SearchResults ==
    {[url |-> "a", raw_content |-> TRUE], [url |-> "b", raw_content |-> TRUE],
     [url |-> "b", raw_content |-> FALSE]}

RECURSIVE ResultListsOfLength(_)
ResultListsOfLength(n) ==
    IF n = 0 THEN {<< >>}
    ELSE {Append(l, r) : l \in ResultListsOfLength(n - 1), r \in SearchResults}

\* the lists of results of one search
ResultLists == UNION {ResultListsOfLength(n) : n \in 1 .. MaxResults}

\* "rst.url in context.visited_urls or time.time() >= deadline"
SkipsResult(url, visited, late) == url \in visited \/ late

\* faulty variant: the URL is not recorded
Visit_Forgets(visited, url) == visited

\* context.visited_urls.add(rst.url)
Visit(visited, url) == visited \cup {url}

ExtractInit ==
    /\ FlowIdle
    /\ plans = NoPlans
    /\ plan_text = NoText
    /\ rendered = 0
    /\ AgentIdle
    /\ BrowserIdle
    /\ MarkIdle
    /\ ResearchIdle
    /\ SearchIdle
    /\ ThinkIdle
    /\ pc = "extract"
    /\ visited_urls = {}
    /\ analysed = << >>
    /\ extract_results \in [ExtractTasks -> ResultLists]
    /\ extract_pos = [t \in ExtractTasks |-> 1]
    /\ extract_pc = [t \in ExtractTasks |-> "loop"]

\* one pass of the loop up to its await: the result is skipped, or recorded
\* as visited and, when it has content, handed to _analyze_content
ExtractResult(t) ==
    /\ pc = "extract"
    /\ extract_pc[t] = "loop"
    /\ extract_pos[t] <= Len(extract_results[t])
    /\ LET rst == extract_results[t][extract_pos[t]]
       IN  \E late \in BOOLEAN :
              IF SkipsResult(rst.url, visited_urls, late)
              THEN /\ extract_pos' = [extract_pos EXCEPT ![t] = @ + 1]
                   /\ UNCHANGED <<visited_urls, analysed, extract_pc>>
              ELSE /\ visited_urls' = Visit(visited_urls, rst.url)
                   /\ IF rst.raw_content
                      THEN /\ analysed' =
                                 Append(analysed,
                                        [task |-> t, url |-> rst.url,
                                         seen |-> rst.url \in visited_urls])
                           /\ extract_pc' = [extract_pc EXCEPT
                                                 ![t] = "analysing"]
                           /\ UNCHANGED extract_pos
                      ELSE /\ extract_pos' = [extract_pos EXCEPT
                                                  ![t] = @ + 1]
                           /\ UNCHANGED <<analysed, extract_pc>>
    /\ UNCHANGED <<extractRest, extract_results>>

\* the loop is over: the insights are returned
ExtractReturns(t) ==
    /\ extract_pc[t] = "loop"
    /\ extract_pos[t] > Len(extract_results[t])
    /\ extract_pc' = [extract_pc EXCEPT ![t] = "returned"]
    /\ UNCHANGED <<extractRest, visited_urls, analysed, extract_results,
                   extract_pos>>

\* _analyze_content returns and the loop goes on
AnalyseReturns(t) ==
    /\ extract_pc[t] = "analysing"
    /\ extract_pos' = [extract_pos EXCEPT ![t] = @ + 1]
    /\ extract_pc' = [extract_pc EXCEPT ![t] = "loop"]
    /\ UNCHANGED <<extractRest, visited_urls, analysed, extract_results>>

\* _analyze_content faults and the fault leaves _extract_insights
AnalyseRaises(t) ==
    /\ extract_pc[t] = "analysing"
    /\ extract_pc' = [extract_pc EXCEPT ![t] = "raised"]
    /\ UNCHANGED <<extractRest, visited_urls, analysed, extract_results,
                   extract_pos>>

ExtractNext ==
    \E t \in ExtractTasks :
        \/ ExtractResult(t)
        \/ ExtractReturns(t)
        \/ AnalyseReturns(t)
        \/ AnalyseRaises(t)

ExtractSpec == ExtractInit /\ [][ExtractNext]_vars

----
\* C16: in one run, step is invoked only while the agent is RUNNING and has
\* budget left, so at most max_steps times; when the state has left RUNNING
\* or the budget is used up, run goes on to no further step.
C16_StepsWithinBudgetWhileRunning ==
    [][/\ Len(thinks') > Len(thinks) =>
            /\ state = "RUNNING"
            /\ current_step < max_steps
            /\ Len(thinks') <= max_steps
       /\ pc' = "think" => state' = "RUNNING" /\ current_step' < max_steps]_vars

\* a CoTAgent given a budget of several steps returned after its first
C16_Witness ==
    /\ pc = "agent_done"
    /\ agent_kind = "cot"
    /\ max_steps = MaxAgentSteps
    /\ Len(thinks) = 1
    /\ state = "FINISHED"

\* C17: the agent's state only moves from IDLE to RUNNING and from RUNNING
\* to FINISHED or ERROR; a run that used up its budget ends FINISHED; ERROR
\* is entered only by the setup fault, before any step.
C17_StateMachine ==
    [][/\ state' # state =>
            <<state, state'>> \in {<<"IDLE", "RUNNING">>,
                                   <<"RUNNING", "FINISHED">>,
                                   <<"RUNNING", "ERROR">>}
       /\ (pc' = "agent_done" /\ current_step' >= max_steps) =>
            state' = "FINISHED"
       /\ state' = "ERROR" =>
            /\ agent_kind = "toolcall"
            /\ available_tools = {}
            /\ thinks' = << >>]_vars

\* the budget was used up with no terminating tool called
C17_Witness ==
    /\ pc = "agent_done"
    /\ state = "FINISHED"
    /\ max_steps = MaxAgentSteps
    /\ current_step = max_steps
    /\ \A k \in 1 .. Len(dispatched) : dispatched[k].name \notin SpecialTools

\* the thinks from..to all returned the same content
SameContent(from, to) ==
    \A k \in from .. to : thinks[k].content = thinks[from].content

\* C18: after duplicate_threshold + 1 steps in a row with the same content,
\* one of the thinks that follow the first of them, up to the next one, gets
\* the change-strategy instruction; the instruction is given only after such
\* a run, for one think, and the counter is cleared when it is due.
C18_RepetitionBroken ==
    /\ \A n \in (duplicate_threshold + 1) .. (Len(thinks) - 1) :
          SameContent(n - duplicate_threshold, n) =>
              \E k \in (n - duplicate_threshold + 1) .. (n + 1) :
                  thinks[k].injected
    /\ \A k \in 1 .. Len(thinks) :
          thinks[k].injected =>
              /\ k > duplicate_threshold + 1
              /\ SameContent(k - 1 - duplicate_threshold, k - 1)
              /\ \A j \in (k + 1) .. Len(thinks) :
                    j <= k + duplicate_threshold => ~thinks[j].injected
    /\ inject => duplicate_count = 0

\* three steps returned the same content and the fourth think was redirected
C18_Witness ==
    /\ Len(thinks) >= duplicate_threshold + 2
    /\ SameContent(1, duplicate_threshold + 1)
    /\ thinks[duplicate_threshold + 2].injected
    /\ ~inject

\* the dispatcher is in the middle of the calls of a step
Acting == pc \in {"act", "cleanup", "finish"}

IsToolMessage(m) == m.role = "tool"
ToolMessages(mem) == SelectSeq(mem, IsToolMessage)

\* the number of tool messages that directly follow position a of memory
ToolRun(a) ==
    CHOOSE m \in 0 .. (Len(memory) - a) :
        /\ \A k \in 1 .. m : memory[a + k].role = "tool"
        /\ (a + m < Len(memory) => memory[a + m + 1].role # "tool")

\* C19: the tool messages that follow an assistant message answer its tool
\* calls one for one in the listed order, each keyed by the id of its call,
\* and the calls were dispatched in the order of their messages; only the
\* calls of a step still being acted on may be unanswered.
C19_OneMessagePerCallInOrder ==
    /\ \A a \in 1 .. Len(memory) :
          memory[a].role = "assistant" =>
              /\ ToolRun(a) <= Len(memory[a].tool_calls)
              /\ \A k \in 1 .. ToolRun(a) :
                    memory[a + k].tool_call_id = memory[a].tool_calls[k].id
              /\ (~Acting \/ a + ToolRun(a) < Len(memory)) =>
                    ToolRun(a) = Len(memory[a].tool_calls)
    /\ Len(ToolMessages(memory)) = Len(dispatched)
    /\ \A k \in 1 .. Len(dispatched) :
          ToolMessages(memory)[k].tool_call_id = dispatched[k].id

\* both calls of a step were answered
C19_Witness ==
    /\ pc = "check"
    /\ Len(dispatched) = 2
    /\ dispatched[1].id < dispatched[2].id
    /\ memory[Len(memory)].tool_call_id = dispatched[2].id

\* the calls the assistant messages of memory list
CallsListed ==
    LET a == AssistantMessages(memory)
        Sum[k \in 0 .. Len(a)] ==
            IF k = 0 THEN 0 ELSE Sum[k - 1] + Len(a[k].tool_calls)
    IN  Sum[Len(a)]

\* C20: a call of an unknown tool or of a tool that raises is answered by a
\* tool message with a non-empty error; the calls after it are dispatched
\* all the same, the agent's state is not ERROR, and the agent goes on to its
\* next step when it is RUNNING with budget left.
C20_ToolFailuresAreIsolated ==
    [][/\ \A k \in 1 .. Len(dispatched') :
             dispatched'[k].outcome \in {"unknown", "raise"} =>
                 /\ ToolMessages(memory')[k].error # ""
                 /\ ToolMessages(memory')[k].content # ""
       /\ ~Acting' => Len(dispatched') = CallsListed'
       /\ dispatched' # << >> => state' # "ERROR"
       /\ (pc = "check" /\ state = "RUNNING" /\ current_step + 1 < max_steps) =>
             pc' = "think" /\ state' = "RUNNING"]_vars

\* the agent is at its next think after an unknown tool and a raising tool
C20_Witness ==
    /\ pc = "think"
    /\ state = "RUNNING"
    /\ \E k \in 1 .. Len(dispatched) : dispatched[k].outcome = "unknown"
    /\ \E k \in 1 .. Len(dispatched) : dispatched[k].outcome = "raise"

\* the k-th dispatched call was a special tool call that succeeded
SpecialSucceeded(k) ==
    dispatched[k].name \in SpecialTools /\ dispatched[k].outcome = "ok"

\* the call dispatched last was a special tool call that succeeded
LastSpecialSucceeded ==
    dispatched # << >> /\ SpecialSucceeded(Len(dispatched))

\* how many times cleanup was run for the call id
TimesReleased(id) ==
    Cardinality({j \in 1 .. Len(released) : released[j] = id})

\* the cleanup was run once for every special tool call that succeeded and
\* was handled, and for no other call
ReleasedForSpecialCalls ==
    /\ \A k \in 1 .. Len(dispatched) :
          TimesReleased(dispatched[k].id) =
              IF SpecialSucceeded(k)
                   /\ ~(k = Len(dispatched) /\ pc = "cleanup")
              THEN 1 ELSE 0
    /\ \A j \in 1 .. Len(released) :
          \E k \in 1 .. Len(dispatched) : dispatched[k].id = released[j]

C23_SessionClosedAfterRun ==
    (agent_kind = "browser" /\ pc = "agent_done") => ~browser /\ ~context

\* C22: at most one execute or cleanup of the tool is inside its body at any
\* time, the task inside holds the lock, and a task that is not inside (one
\* that waits, is idle, or asked for the browser state) does not hold it.
C22_SessionAccessUnderLock ==
    /\ \A t, u \in DOMAIN task_pc : (InSection(t) /\ InSection(u)) => t = u
    /\ \A t \in DOMAIN task_pc : InSection(t) <=> lock = t

\* one task is in the middle of execute while the other waits for the lock to
\* run cleanup
C22_Witness ==
    \E t, u \in DOMAIN task_pc :
        /\ task_pc[t] = "op"
        /\ task_pc[u] = "acquire"
        /\ task_call[u].op = "cleanup"
        /\ lock = t

\* execute returned to task t: it did not raise, its result carries an output
\* or an error and not both, an unknown action gave an error, and the task
\* does not hold the lock
ReturnedResult(t) ==
    LET r == task_result[t]
    IN  /\ ~r.raised
        /\ (r.output = "") # (r.error = "")
        /\ r.call.action \notin KnownActions => r.error # ""
        /\ task_pc[t] = "idle" => lock # t

C29_FinalizedOnEveryReturn ==
    (/\ pc = "done"
     /\ ev.op \in {"step", "finalize"}
     /\ ev.run # "nontext")
    => SummaryRuns # {}

C26_ParentProceedsAtDeadline ==
    \A c \in DOMAIN cycles :
        (/\ cycles[c].pc = "join"
         /\ \/ \A k \in Children(c) : cycles[k].pc = "done"
            \/ /\ now >= cycles[c].deadline
               /\ \A k \in Children(c) : cycles[k].pc # "entry")
        => (GatherReturns(c) \/ GatherRaises(c))

\* C27: a cycle created at most 2 follow-up cycles, each with the deadline of
\* the execute call, each created before the deadline and while the shared
\* depth was below max_depth; a cycle without follow-up cycles does not wait.
C27_BoundedFanOut ==
    /\ \A c \in DOMAIN cycles :
          /\ Cardinality(Children(c)) <= 2
          /\ Cardinality(Children(c)) <= cycles[c].follow_ups
          /\ cycles[c].pc = "join" => Children(c) # {}
    /\ \A k \in DOMAIN cycles :
          /\ cycles[k].deadline = deadline
          /\ cycles[k].created < cycles[k].deadline
          /\ cycles[k].depth < max_depth
          /\ cycles[k].parent # NoParent =>
                /\ cycles[k].parent < k
                /\ cycles[cycles[k].parent].pc \in {"join", "done", "raised"}

\* a cycle that got 3 follow-up queries created 2 cycles, and one of them,
\* given follow-up queries at depth max_depth, created none
C27_Witness ==
    \E c, k \in DOMAIN cycles :
        /\ cycles[c].follow_ups = 3
        /\ Cardinality(Children(c)) = 2
        /\ k \in Children(c)
        /\ cycles[k].follow_ups = 3
        /\ Children(k) = {}
        /\ cycles[k].pc = "done"
        /\ current_depth >= max_depth

\* C28: one execute call starts at most 1 + 2 * (max_depth - 1) cycles, and
\* it returns a summary: it does not raise.
C28_BoundedCyclesThenSummary ==
    research # "idle" =>
        /\ Len(cycles) <= 1 + 2 * (max_depth - 1)
        /\ research # "raised"

\* C30: the shared depth, which execute reports as depth_reached, is never
\* above max_depth.
C30_DepthWithinMaxDepth ==
    research # "idle" => current_depth <= max_depth

\* nothing of the browser session is held
SessionAbsent == ~browser /\ ~context /\ ~dom_service

\* C37: when cleanup returns normally the browser, the context and the dom
\* service are absent; a cleanup of an absent session changes nothing; and
\* execute goes on to its action only with the browser and the context
\* present, creating them, and the dom service with the context, when absent.
C37_CleanupThenFreshSession ==
    [][\A t \in DOMAIN task_pc :
          /\ (/\ task_pc[t] = "closing"
              /\ task_pc'[t] = "idle"
              /\ ~task_result'[t].raised) =>
                /\ SessionAbsent'
                /\ SessionAbsent =>
                      UNCHANGED <<browser, context, dom_service>>
          /\ (task_pc[t] = "init" /\ task_pc'[t] = "op") =>
                /\ browser' /\ context'
                /\ ~context => dom_service']_vars

\* a task is at its action with a whole session while the last call of the
\* other task was a cleanup that returned normally
C37_Witness ==
    \E t, u \in DOMAIN task_pc :
        /\ task_result[t].call.op = "cleanup"
        /\ ~task_result[t].raised
        /\ task_pc[t] = "idle"
        /\ task_pc[u] = "op"
        /\ browser /\ context /\ dom_service

\* the engines tried in round r, in the order tried
RoundAttempts(r) ==
    LET a == SelectSeq(attempts, LAMBDA x : x.round = r)
    IN  [k \in 1 .. Len(a) |-> a[k].engine]

\* C31: execute runs at most max_retries + 1 rounds; retry_delay was waited
\* once after every round but the current one, so never after the last; when
\* a round gave links execute returned them with no further search; and it
\* returns the empty list only after max_retries + 1 rounds that all failed.
C31_RoundsAndWaits ==
    search_pc # "idle" =>
        /\ retry_count < Rounds(search_config.max_retries)
        /\ sleeps = [k \in 1 .. retry_count |-> k - 1]
        /\ \A k \in 1 .. Len(attempts) : attempts[k].round <= retry_count
        /\ links # << >> =>
              /\ search_pc = "returned"
              /\ attempts[Len(attempts)] =
                    [round |-> retry_count, engine |-> links[1]]
        /\ (search_pc = "returned" /\ links = << >>) =>
              /\ retry_count = search_config.max_retries
              /\ \A r \in 0 .. retry_count :
                    RoundAttempts(r) = GetEngineOrder(search_config)

\* two rounds failed, the waits were made, and the third round gave links
C31_Witness ==
    /\ search_pc = "returned"
    /\ links # << >>
    /\ retry_count = 2
    /\ sleeps = <<0, 1>>

\* the registered engines the order does not hold
MissingEngines(order) ==
    {RegisteredEngines[k] : k \in 1 .. Len(RegisteredEngines)}
    \ {order[k] : k \in 1 .. Len(order)}

\* C32: the order of a round is the preferred engine, then the configured
\* fallback engines, then the remaining registered engines, none twice, and
\* the engines of the round are tried in that order up to the first that
\* gives links.
C32_EngineOrderComplete ==
    search_pc \in {"engine", "failed", "returned"} =>
        /\ MissingEngines(engine_order) = {}
        /\ \A j, k \in 1 .. Len(engine_order) :
              engine_order[j] = engine_order[k] => j = k
        /\ \A k \in 1 .. Len(RoundAttempts(retry_count)) :
              RoundAttempts(retry_count)[k] = engine_order[k]

C36_AnalysedOnce ==
    /\ \A j, k \in 1 .. Len(analysed) :
          analysed[j].url = analysed[k].url => j = k
    /\ \A k \in 1 .. Len(analysed) :
          /\ ~analysed[k].seen
          /\ analysed[k].url \in visited_urls

\* both cycles hold the URL, one analysed it and the other has passed it
C36_Witness ==
    \E t, u \in ExtractTasks :
        /\ t # u
        /\ \E k \in 1 .. Len(analysed) :
              /\ analysed[k].task = t
              /\ \E i \in 1 .. Len(extract_results[u]) :
                    /\ extract_results[u][i].url = analysed[k].url
                    /\ extract_results[u][i].raw_content
                    /\ i < extract_pos[u]
        /\ extract_pc[t] = "analysing"

\* the step selected last in this call, NoIndex before the first selection
LastSelected == IF selected = << >> THEN NoIndex ELSE selected[Len(selected)]

InProgressSteps(plan) ==
    {j \in Indices(Len(plan.steps)) : StatusOf(plan, j) = "in_progress"}

\* the statuses as create and the flow's own marks leave them: the steps
\* before step i done, the steps after it untouched
FlowOrdered(plan, i) ==
    /\ Cardinality(InProgressSteps(plan)) <= 1
    /\ \A j \in Indices(Len(plan.steps)) :
          /\ j < i => StatusOf(plan, j) \in {"completed", "blocked"}
          /\ j > i => StatusOf(plan, j) = "not_started"

RunsFor(rs, purpose) == {k \in 1 .. Len(rs) : rs[k].purpose = purpose}

\* C38: in a call of execute with an empty request no step creates a plan or
\* runs the planner for one, and none adds, removes or replaces a stored
\* plan (title and steps stay, only statuses are marked); the loop selects
\* from the plan that is stored; and with a primary agent and no plan stored
\* the call goes from the check to the step selection, from there to
\* finalize and returns, with no executor run.
C38_EmptyRequestKeepsStoredPlan ==
    [][input_text = "" =>
          /\ pc' # "create"
          /\ RunsFor(runs', "plan") = {}
          /\ DOMAIN plans' = DOMAIN plans
          /\ ActivePlanId \in DOMAIN plans =>
                /\ plans'[ActivePlanId].title = plans[ActivePlanId].title
                /\ plans'[ActivePlanId].steps = plans[ActivePlanId].steps
                /\ pc = "loop" =>
                      current_step_index' =
                          FirstActiveStep(plans[ActivePlanId], 0)
          /\ (ActivePlanId \notin DOMAIN plans /\ primary_agent # NoKey) =>
                /\ pc = "start" => pc' = "loop"
                /\ pc = "loop" => pc' = "finalize"
                /\ pc = "finalize" => pc' = "done"
                /\ RunsFor(runs', "step") = {}]_vars

\* an empty request with no plan stored has returned after the summary
C38_Witness ==
    /\ input_text = ""
    /\ plans = NoPlans
    /\ pc = "done"
    /\ ev.op = "finalize"
    /\ Len(runs) = 1
    /\ runs[1].purpose = "summary"

\* the number of step lines of a rendered text that carry the mark
LinesMarked(text, mark) ==
    Cardinality({j \in 1 .. Len(text.lines) : text.lines[j].mark = mark})

\* C35: in a text rendered from a stored plan the four status counts sum to
\* the number of steps, each count is the number of step lines with the mark
\* of its status, and the completed count is at most the total.
C35_CountsAgreeWithMarks ==
    (rendered > 0 /\ plan_text.found) =>
        /\ plan_text.counts[1] + plan_text.counts[2] + plan_text.counts[3]
              + plan_text.counts[4] = plan_text.total
        /\ plan_text.counts[1] = LinesMarked(plan_text, StatusMark("completed"))
        /\ plan_text.counts[2] = LinesMarked(plan_text, StatusMark("in_progress"))
        /\ plan_text.counts[3] = LinesMarked(plan_text, StatusMark("blocked"))
        /\ plan_text.counts[4] = LinesMarked(plan_text, StatusMark("not_started"))
        /\ plan_text.completed <= plan_text.total

====
